---- MODULE Spec2Model ----
(***************************************************************************)
(* Model of migrator_studio.codegen: the transformer-script parser         *)
(* (parser.py), the Marimo notebook generator (notebook.py) and the        *)
(* notebook-to-script synchroniser (sync.py), together with the `dev` and   *)
(* `sync` commands of cli/main.py that drive them over the file system.     *)
(*                                                                         *)
(* Text is modelled as a sequence of lines; a line is an indentation level *)
(* (in units of four spaces) and a sequence of word tokens.  A token        *)
(* records its text and whether it stands inside string quotes, so that     *)
(* the regular expressions of the source, which match words (\bdf\b,        *)
(* ^df_\d+$, ^return\s ...), can be evaluated on it.                        *)
(***************************************************************************)
EXTENDS Integers, Sequences, FiniteSets, TLC

(***************************************************************************)
(* Bounds of the model.                                                    *)
(***************************************************************************)
MaxSteps == 2
MaxCmds == 2

(***************************************************************************)
(* Tokens, lines and files.                                                *)
(***************************************************************************)
W(s) == [q |-> FALSE, s |-> s]
Q(s) == [q |-> TRUE, s |-> s]
Ws(ss) == [i \in DOMAIN ss |-> W(ss[i])]
Ln(ind, toks) == [ind |-> ind, toks |-> toks]
Blank == Ln(0, <<>>)
NoFile == << Ln(0, <<W("<no file>")>>) >>

IsBlank(line) == line.toks = <<>>
IsComment(line) == ~IsBlank(line) /\ line.toks[1].s \in {"#", "# Step"}

\* number of tokens of toks outside strings whose text is in set
CountTok(toks, set) ==
    Cardinality({i \in DOMAIN toks : ~toks[i].q /\ toks[i].s \in set})

\* net number of brackets a line opens, as the Python tokenizer sees them
Depth(line) ==
    IF IsComment(line) THEN 0
    ELSE CountTok(line.toks, {"(", "[", "{"}) - CountTok(line.toks, {")", "]", "}"})

RECURSIVE FlattenLines(_)
FlattenLines(lines) ==
    IF lines = <<>> THEN <<>> ELSE Head(lines).toks \o FlattenLines(Tail(lines))

Indent(lines, n) ==
    [i \in DOMAIN lines |-> Ln(lines[i].ind + n, lines[i].toks)]

\* least i >= from with Test(lines[i]), or 0
FirstIndex(lines, from, Test(_)) ==
    LET S == {i \in from..Len(lines) : Test(lines[i])}
    IN  IF S = {} THEN 0 ELSE CHOOSE i \in S : \A j \in S : i <= j

(***************************************************************************)
(* parser.py                                                               *)
(***************************************************************************)
IsDefTransform(line) ==
    /\ line.ind = 0
    /\ Len(line.toks) >= 3
    /\ line.toks[1] = W("def") /\ line.toks[2] = W("transform") /\ line.toks[3] = W("(")

\* _find_transform_function: index of the def line, 0 when there is none
FindTransformFunction(src) == FirstIndex(src, 1, IsDefTransform)

\* last line of the function whose def line is at index d
RECURSIVE FunctionEnd(_, _, _)
FunctionEnd(src, k, last) ==
    IF k > Len(src) THEN last
    ELSE IF IsBlank(src[k]) \/ IsComment(src[k]) THEN FunctionEnd(src, k + 1, last)
    ELSE IF src[k].ind >= 1 THEN FunctionEnd(src, k + 1, k)
    ELSE last

\* end_lineno of the statement that starts at line i of a block at bodyInd
RECURSIVE StmtEnd(_, _, _, _, _, _)
StmtEnd(src, k, stop, bodyInd, depth, last) ==
    IF k > stop THEN last
    ELSE IF depth > 0
         THEN StmtEnd(src, k + 1, stop, bodyInd, depth + Depth(src[k]),
                      IF IsBlank(src[k]) \/ IsComment(src[k]) THEN last ELSE k)
    ELSE IF IsBlank(src[k]) \/ IsComment(src[k])
         THEN StmtEnd(src, k + 1, stop, bodyInd, depth, last)
    ELSE IF src[k].ind > bodyInd
         THEN StmtEnd(src, k + 1, stop, bodyInd, Depth(src[k]), k)
    ELSE last

\* the statements of the function body as <<first line, last line>> pairs
RECURSIVE BodyStmts(_, _, _)
BodyStmts(src, k, stop) ==
    IF k > stop THEN <<>>
    ELSE IF IsBlank(src[k]) \/ IsComment(src[k]) THEN BodyStmts(src, k + 1, stop)
    \* lineno of a decorated def is the line of the def, after its decorators
    ELSE IF src[k].toks[1] = W("@") THEN BodyStmts(src, k + 1, stop)
    ELSE LET e == StmtEnd(src, k + 1, stop, src[k].ind, Depth(src[k]), k)
         IN  << <<k, e>> >> \o BodyStmts(src, e + 1, stop)

\* ast.parse raises SyntaxError when a bracket is never closed or never opened
RECURSIVE BracketsOK(_, _)
BracketsOK(src, depth) ==
    IF src = <<>> THEN depth = 0
    ELSE LET d == depth + Depth(Head(src))
         IN  d >= 0 /\ BracketsOK(Tail(src), d)

\* _get_source_segment
GetSourceSegment(src, first, last) ==
    LET first_indent == src[first].ind
    IN  [i \in 1..(last - first + 1) |->
            LET line == src[first + i - 1]
            IN  IF line.ind >= first_indent
                THEN Ln(line.ind - first_indent, line.toks) ELSE line]

\* _is_step_call: the step name, "" when the statement is no step marker
IsStepCall(src, first, last) ==
    LET toks == src[first].toks
    IN  IF /\ Len(toks) >= 4
           /\ toks[1] = W("step") /\ toks[2] = W("(") /\ toks[3].q
        THEN toks[3].s ELSE ""

IsReturnStmt(line) == ~IsBlank(line) /\ line.toks[1] = W("return")
IsStringExpr(src, first, last) ==
    first = last /\ Len(src[first].toks) = 1 /\ src[first].toks[1].q

\* _extract_sources_constant
IsSourcesAssign(line) ==
    /\ Len(line.toks) >= 3
    /\ line.toks[1] = W("SOURCES") /\ line.toks[2] = W("=") /\ line.toks[3] = W("[")
ExtractSourcesConstant(src) ==
    LET i == FirstIndex(src, 1, IsSourcesAssign)
    IN  IF i = 0 THEN <<>>
        ELSE LET lits == SelectSeq(src[i].toks, LAMBDA t : t.q)
             IN  [j \in DOMAIN lits |-> lits[j].s]

\* the loop of parse_transformer over transform_func.body
RECURSIVE SplitBody(_, _, _)
SplitBody(src, stmts, acc) ==
    IF stmts = <<>> THEN acc
    ELSE LET first == Head(stmts)[1]
             last == Head(stmts)[2]
             step_name == IsStepCall(src, first, last)
             code == GetSourceSegment(src, first, last)
             rest == Tail(stmts)
         IN  IF IsStringExpr(src, first, last) /\ acc.current_step_name = ""
             THEN SplitBody(src, rest, acc)
             ELSE IF IsReturnStmt(src[first])
             THEN SplitBody(src, rest, acc)
             ELSE IF step_name # ""
             THEN SplitBody(src, rest,
                    [acc EXCEPT
                       !.steps = IF acc.current_step_name # ""
                                 THEN Append(@, [name |-> acc.current_step_name,
                                                 code |-> acc.current_step_lines])
                                 ELSE @,
                       !.current_step_name = step_name,
                       !.current_step_lines = <<>>])
             ELSE IF acc.current_step_name = ""
             THEN SplitBody(src, rest, [acc EXCEPT !.setup_lines = @ \o code])
             ELSE SplitBody(src, rest, [acc EXCEPT !.current_step_lines = @ \o code])

\* ast.get_docstring(tree)
ModuleDocstring(src) ==
    LET i == FirstIndex(src, 1, LAMBDA l : ~IsBlank(l) /\ ~IsComment(l))
    IN  IF i # 0 /\ src[i].ind = 0 /\ Len(src[i].toks) = 1 /\ src[i].toks[1].q
        THEN src[i].toks[1].s ELSE ""

\* parse_transformer: ok = FALSE stands for the exception it raises
ParseTransformer(src) ==
    LET d == FindTransformFunction(src)
    IN  IF src = NoFile \/ ~BracketsOK(src, 0) \/ d = 0
        THEN [ok |-> FALSE, module_docstring |-> "", sources |-> <<>>,
              setup_code |-> <<>>, steps |-> <<>>]
        ELSE LET stop == FunctionEnd(src, d + 1, d)
                 acc == SplitBody(src, BodyStmts(src, d + 1, stop),
                          [setup_lines |-> <<>>, steps |-> <<>>,
                           current_step_name |-> "", current_step_lines |-> <<>>])
             IN  [ok |-> TRUE,
                  module_docstring |-> ModuleDocstring(src),
                  sources |-> ExtractSourcesConstant(src),
                  setup_code |-> acc.setup_lines,
                  steps |-> IF acc.current_step_name # ""
                            THEN Append(acc.steps, [name |-> acc.current_step_name,
                                                    code |-> acc.current_step_lines])
                            ELSE acc.steps]

(***************************************************************************)
(* notebook.py                                                             *)
(***************************************************************************)
\* f"df_{step_num}"
StageNames == <<"df_1", "df_2", "df_3", "df_4", "df_5">>
NumStr == <<"1", "2", "3", "4", "5">>
StageName(k) == StageNames[k]

\* the names generate_notebook adds to exported_vars for the Imports cell
ExportedOps ==
    {"sanitize_data", "filter_isin", "filter_not_null", "filter_null", "merge_left",
     "merge_inner", "merge_outer", "map_dict", "map_lookup", "copy_column",
     "set_value", "concat_columns", "rename_columns", "drop_columns", "select_columns",
     "str_strip", "str_upper", "str_lower", "str_replace", "fill_null",
     "where", "case", "coalesce", "drop_duplicates", "keep_max",
     "keep_min", "to_numeric", "to_int", "to_string", "to_bool",
     "load_source"}

\* the operations NOTEBOOK_IMPORTS_TEMPLATE imports from migrator_studio
RegistryOps ==
    (ExportedOps \ {"load_source"})
    \cup {"filter_by_value", "filter_date", "str_regex_replace", "parse_date",
          "format_date", "extract_date_part", "handle_invalid_dates", "groupby_agg",
          "groupby_concat", "apply_row", "apply_column", "transform"}

\* the names a cell may depend on, in the order sorted() gives them
SortedNames ==
    <<"case", "coalesce", "concat_columns", "copy_column", "df",
      "df_1", "df_2", "df_3", "df_4", "df_5",
      "drop_columns", "drop_duplicates", "fill_null", "filter_isin", "filter_not_null",
      "filter_null", "keep_max", "keep_min", "load_source", "lookup",
      "map_dict", "map_lookup", "merge_inner", "merge_left", "merge_outer",
      "other", "rename_columns", "sanitize_data", "select_columns", "session",
      "set_value", "sources", "str_lower", "str_replace", "str_strip",
      "str_upper", "to_bool", "to_int", "to_numeric", "to_string",
      "where">>
Sorted(names) == SelectSeq(SortedNames, LAMBDA n : n \in names)

Range(f) == {f[i] : i \in DOMAIN f}

Punct == {"(", ")", "[", "]", "{", "}", "=", "==", ",", ":", ">", ".", "#", "@",
          "# Step", "@app.cell"}
\* \w+
IsWord(tok) == ~tok.q /\ tok.s \notin Punct

\* ^(\s*)df(\s*=) on one line
IsDfAssign(line) ==
    /\ Len(line.toks) >= 2
    /\ line.toks[1] = W("df")
    /\ ~line.toks[2].q /\ line.toks[2].s \in {"=", "=="}

\* re.sub(r'\bdf\b', name, line)
SubDf(line, name) ==
    Ln(line.ind, [i \in DOMAIN line.toks |->
                    IF line.toks[i].s = "df"
                    THEN [line.toks[i] EXCEPT !.s = name] ELSE line.toks[i]])

\* re.sub(r'^(\s*)df(\s*=)', rf'\g<1>{current_df_var}\g<2>', line, count=1)
SubLhs(line, name) == Ln(line.ind, [line.toks EXCEPT ![1] = W(name)])

CountChar(toks, c) == Cardinality({i \in DOMAIN toks : toks[i].s = c})

\* line.count('(') - line.count(')')
ParenCount(line) == CountChar(line.toks, "(") - CountChar(line.toks, ")")

\* len(re.findall(assignment_pattern, step_code, re.MULTILINE))
NumAssignments(code) == Cardinality({i \in DOMAIN code : IsDfAssign(code[i])})

\* num_assignments == 0
RenameZero(code, input_var) == [i \in DOMAIN code |-> SubDf(code[i], input_var)]

\* num_assignments == 1
RenameOne(code, input_var, current_df_var) ==
    LET a == FirstIndex(code, 1, IsDfAssign)
    IN  [i \in DOMAIN code |->
            SubDf(IF i = a THEN SubLhs(code[i], current_df_var) ELSE code[i], input_var)]

\* the inner while loop: number of continuation lines of an assignment
RECURSIVE ContinuationLen(_, _, _)
ContinuationLen(lines_list, k, paren_count) ==
    IF paren_count > 0 /\ k <= Len(lines_list)
    THEN 1 + ContinuationLen(lines_list, k + 1, paren_count + ParenCount(lines_list[k]))
    ELSE 0

\* the outer while loop of the multiple-assignment branch
RECURSIVE RenameMulti(_, _, _, _)
RenameMulti(lines_list, i, current_input, current_df_var) ==
    IF i > Len(lines_list) THEN <<>>
    ELSE IF IsDfAssign(lines_list[i])
    THEN LET line == SubDf(SubLhs(lines_list[i], current_df_var), current_input)
             n == ContinuationLen(lines_list, i + 1, ParenCount(line))
         IN  <<line>>
             \o [j \in 1..n |-> SubDf(lines_list[i + j], current_input)]
             \o RenameMulti(lines_list, i + n + 1, current_df_var, current_df_var)
    ELSE <<SubDf(lines_list[i], current_input)>>
         \o RenameMulti(lines_list, i + 1, current_input, current_df_var)

\* the renaming of one step's code (notebook.py 193-250)
RenameStep(code, input_var, current_df_var) ==
    IF NumAssignments(code) = 0 THEN RenameZero(code, input_var)
    ELSE IF NumAssignments(code) = 1 THEN RenameOne(code, input_var, current_df_var)
    ELSE RenameMulti(code, 1, input_var, current_df_var)

\* re.search(rf'\b{var}\b', step_code)
UsesName(code, var) ==
    \E i \in DOMAIN code : \E j \in DOMAIN code[i].toks : code[i].toks[j].s = var

\* input_var = prev_df_var if prev_df_var else current_df_var
InputVar(step_num) == IF step_num > 1 THEN StageName(step_num - 1) ELSE StageName(step_num)

\* a slip: the previous stage is a dependency only when the code reads it
StepDepsUsedOnly(step_code, step_num, exported_vars) ==
    {var \in exported_vars : UsesName(step_code, var)}

\* all_deps of the cell of step step_num
StepDeps(step_code, step_num, exported_vars) ==
    (IF step_num > 1 THEN {StageName(step_num - 1)} ELSE {})
    \cup {var \in exported_vars :
            (step_num = 1 \/ var # StageName(step_num - 1)) /\ UsesName(step_code, var)}

CellHead(deps) ==
    << Ln(0, <<W("@app.cell")>>),
       Ln(0, <<W("def"), W("__"), W("(")>> \o Ws(deps) \o <<W(")"), W(":")>>) >>

StepHeader(step_num, name) == Ln(0, <<W("# Step"), W(NumStr[step_num]), W(name)>>)

\* the lines of the cell of one step (notebook.py 252-276)
StepCell(step, step_num, exported_vars) ==
    LET current_df_var == StageName(step_num)
        step_code == RenameStep(step.code, InputVar(step_num), current_df_var)
    IN  CellHead(Sorted(StepDeps(step_code, step_num, exported_vars)))
        \o Indent(<<StepHeader(step_num, step.name)>> \o step_code
                  \o << Ln(0, <<W(current_df_var)>>),
                        Ln(0, <<W("return"), W(current_df_var)>>) >>, 1)
        \o <<Blank>>

\* the loop over transformer_ast.steps (notebook.py 187-280)
RECURSIVE StepCells(_, _, _)
StepCells(steps, step_num, exported_vars) ==
    IF step_num > Len(steps) THEN <<>>
    ELSE StepCell(steps[step_num], step_num, exported_vars)
         \o StepCells(steps, step_num + 1, exported_vars \cup {StageName(step_num)})

\* re.finditer(r'^(\w+)\s*=', setup_code, re.MULTILINE)
IsSetupAssign(line) ==
    /\ line.ind = 0 /\ Len(line.toks) >= 2
    /\ IsWord(line.toks[1])
    /\ ~line.toks[2].q /\ line.toks[2].s \in {"=", "=="}
SetupVars(setup_code) ==
    LET hits == SelectSeq(setup_code, IsSetupAssign)
    IN  <<"sources">> \o [i \in DOMAIN hits |-> hits[i].toks[1].s]

\* Cell 1 (notebook.py 109-141), the import list shortened to its shape
ImportsCell ==
    CellHead(<<>>)
    \o Indent(<< Ln(0, Ws(<<"import", "sys">>)),
                 Ln(0, Ws(<<"from", "pathlib", "import", "Path">>)),
                 Blank,
                 Ln(0, Ws(<<"from", "migrator_studio", "import", "configure",
                            "BuildSession", "load_source">>)),
                 Blank,
                 Ln(0, Ws(<<"session", "=", "BuildSession", "(", "sample", ")">>)),
                 Blank,
                 Ln(0, Ws(<<"return", "(">>)),
                 Ln(1, Ws(<<"session">>)),
                 Ln(1, Ws(Sorted(ExportedOps))),
                 Ln(0, Ws(<<")">>)) >>, 1)
    \o <<Blank>>

\* the lines of Cell 2
SourceLoadLines(ast) ==
         CellHead(<<"load_source">>)
         \o Indent(<< Ln(0, <<W("#"), W("Load source data")>>),
                      Ln(0, Ws(<<"sources", "=", "{">>)) >>
                   \o [i \in DOMAIN ast.sources |->
                         Ln(1, <<Q(ast.sources[i]), W(":"), W("load_source"), W("("),
                                 Q(ast.sources[i]), W(")")>>)]
                   \o << Ln(0, Ws(<<"}">>)) >>
                   \o (IF ast.setup_code # <<>> THEN <<Blank>> \o ast.setup_code ELSE <<>>)
                   \o << Ln(0, Ws(<<"return">> \o SetupVars(ast.setup_code))) >>, 1)
         \o <<Blank>>

\* Cell 2 (notebook.py 156-185); emitted only when the script has SOURCES
SourceLoadCell(ast) ==
    IF ast.sources = <<>> THEN <<>> ELSE SourceLoadLines(ast)

\* exported_vars when the loop over the steps starts
ExportedBeforeSteps(ast) ==
    {"session"} \cup ExportedOps
    \cup (IF ast.sources = <<>> THEN {} ELSE Range(SetupVars(ast.setup_code)))

\* Final cell (notebook.py 282-293)
ResultCell(n) ==
    LET final_df_var == IF n > 0 THEN StageName(n) ELSE "df"
    IN  CellHead(<<final_df_var>>)
        \o Indent(<< Ln(0, <<W("#"), W("Final Result")>>),
                     Ln(0, Ws(<<"print", "(", "len", "(", final_df_var, ")", ")">>)),
                     Ln(0, Ws(<<final_df_var>>)),
                     Ln(0, Ws(<<"return">>)) >>, 1)
        \o <<Blank>>

\* the notebook header (notebook.py 90-104)
Header(ast) ==
    << Ln(0, Ws(<<"import", "marimo">>)), Blank,
       Ln(0, Ws(<<"app", "=", "marimo", ".", "App", "(", ")">>)), Blank,
       Ln(0, <<W("#"), W(IF ast.module_docstring # "" THEN ast.module_docstring
                         ELSE "Transformer Notebook")>>),
       Ln(0, <<W("#"), W("Generated from")>>), Blank >>

MainBlock ==
    << Blank, Ln(0, Ws(<<"if", "__name__", "==", "__main__", ":">>)),
       Ln(1, Ws(<<"app", ".", "run", "(", ")">>)) >>

\* generate_notebook: the notebook source it writes and returns
GenerateNotebook(ast) ==
    Header(ast) \o ImportsCell \o SourceLoadCell(ast)
    \o StepCells(ast.steps, 1, ExportedBeforeSteps(ast))
    \o ResultCell(Len(ast.steps)) \o MainBlock

\* the steps generate_notebook warns about: its loop over the steps renames
\* the text of each step and reports nothing (notebook.py 187-250)
RenameWarnings(ast) == {}

(***************************************************************************)
(* sync.py                                                                 *)
(***************************************************************************)
IsAppCell(line) == line.ind = 0 /\ line.toks = <<W("@app.cell")>>
IsCellDef(line) ==
    /\ line.ind = 0 /\ Len(line.toks) >= 5
    /\ SubSeq(line.toks, 1, 3) = <<W("def"), W("__"), W("(")>>
    /\ SubSeq(line.toks, Len(line.toks) - 1, Len(line.toks)) = <<W(")"), W(":")>>
\* a line the body pattern (?:    .+\n?) accepts
IsBodyLine(line) ==
    \/ line.ind >= 1 /\ line.toks # <<>>
    \/ line.ind >= 2

\* str.rstrip() of a text: no blank line at its end
RECURSIVE RStripLines(_)
RStripLines(lines) ==
    IF lines # <<>> /\ IsBlank(lines[Len(lines)])
    THEN RStripLines(SubSeq(lines, 1, Len(lines) - 1)) ELSE lines

\* number of consecutive body lines from k on
RECURSIVE BodyLen(_, _)
BodyLen(nb, k) ==
    IF k <= Len(nb) /\ IsBodyLine(nb[k]) THEN 1 + BodyLen(nb, k + 1) ELSE 0

\* first non-blank line from k on (the \s*\n of the pattern skips blank lines)
RECURSIVE SkipBlank(_, _)
SkipBlank(nb, k) ==
    IF k <= Len(nb) /\ IsBlank(nb[k]) THEN SkipBlank(nb, k + 1) ELSE k

\* _extract_cells: the cells the pattern finds, each with deps and dedented body
RECURSIVE ExtractCells(_, _)
ExtractCells(nb, k) ==
    IF k > Len(nb) THEN <<>>
    ELSE IF ~IsAppCell(nb[k]) THEN ExtractCells(nb, k + 1)
    ELSE LET d == SkipBlank(nb, k + 1)
             b == SkipBlank(nb, d + 1)
             n == BodyLen(nb, b)
         IN  IF d <= Len(nb) /\ IsCellDef(nb[d]) /\ n > 0
             THEN << [deps |-> SubSeq(nb[d].toks, 4, Len(nb[d].toks) - 2),
                      body |-> RStripLines(Indent(SubSeq(nb, b, b + n - 1), -1))] >>
                  \o ExtractCells(nb, b + n)
             ELSE ExtractCells(nb, k + 1)

IsStepHeader(line) ==
    line.ind = 0 /\ Len(line.toks) >= 2 /\ line.toks[1] = W("# Step")
    /\ \E k \in DOMAIN NumStr : line.toks[2] = W(NumStr[k])

\* _is_step_cell: the step name, "" when the cell is no step cell
IsStepCell(cell) ==
    IF cell.body # <<>> /\ IsStepHeader(cell.body[1]) /\ Len(cell.body[1].toks) >= 3
    THEN cell.body[1].toks[3].s ELSE ""

\* _reverse_variable_rename
ReverseVariableRename(code, cell_index) ==
    [i \in DOMAIN code |->
        Ln(code[i].ind,
           [j \in DOMAIN code[i].toks |->
              IF cell_index \in DOMAIN StageNames
                 /\ code[i].toks[j].s = StageName(cell_index)
              THEN [code[i].toks[j] EXCEPT !.s = "df"] ELSE code[i].toks[j]])]

IsStageName(tok) == ~tok.q /\ \E k \in DOMAIN StageNames : tok.s = StageNames[k]
\* the three kinds of line _extract_step_code skips
IsDisplayLine(line) == Len(line.toks) = 1 /\ IsStageName(line.toks[1])
IsReturnLine(line) == Len(line.toks) >= 2 /\ line.toks[1] = W("return")

\* "\n".join(code_lines).strip(): no blank line and no indentation at either end
RECURSIVE StripLines(_)
StripLines(lines) ==
    IF lines = <<>> THEN <<>>
    ELSE IF IsBlank(Head(lines)) THEN StripLines(Tail(lines))
    ELSE IF IsBlank(lines[Len(lines)]) THEN StripLines(SubSeq(lines, 1, Len(lines) - 1))
    ELSE <<Ln(0, Head(lines).toks)>> \o Tail(lines)

\* _extract_step_code
ExtractStepCode(cell, cell_index) ==
    LET code_lines == SelectSeq(cell.body,
                        LAMBDA line : /\ ~IsStepHeader(line)
                                      /\ ~IsDisplayLine(line)
                                      /\ ~IsReturnLine(line))
    IN  ReverseVariableRename(StripLines(code_lines), cell_index)

\* a slip: the index counted from a fixed position of the first Step cell
CellIndexFixed(i, step_cell_start) == i - 2

\* cell_index: i - (step_cell_start or 0) + 1 (sync.py 96)
CellIndex(i, step_cell_start) == i - step_cell_start + 1

\* the loop of sync_notebook over the cells (sync.py 88-97)
RECURSIVE ExtractSteps(_, _, _)
ExtractSteps(cells, i, step_cell_start) ==
    IF i > Len(cells) THEN <<>>
    ELSE LET step_name == IsStepCell(cells[i])
             start == IF step_cell_start = 0 THEN i ELSE step_cell_start
         IN  IF step_name # ""
             THEN << [name |-> step_name,
                      code |-> ExtractStepCode(cells[i], CellIndex(i, start))] >>
                  \o ExtractSteps(cells, i + 1, start)
             ELSE ExtractSteps(cells, i + 1, step_cell_start)

\* the first line of post_sig that is not blank, and the docstring match on it
DocstringIndex(src, d) ==
    LET i == SkipBlank(src, d + 1)
    IN  IF i <= Len(src) /\ src[i].ind >= 1
           /\ Len(src[i].toks) = 1 /\ src[i].toks[1].q
        THEN i ELSE 0

\* the lookahead (?=\s+step\() of the setup pattern
IsStepLine(line) ==
    Len(line.toks) >= 2 /\ line.toks[1] = W("step") /\ line.toks[2] = W("(")

\* setup_code of sync_notebook (sync.py 122-130) as lines, "" being <<>>
SyncSetupCode(src, d) ==
    LET ds == DocstringIndex(src, d)
        from == SkipBlank(src, (IF ds # 0 THEN ds ELSE d) + 1)
        s == FirstIndex(src, from, IsStepLine)
    IN  IF s = 0 THEN <<>>
        ELSE LET text == RStripLines(SubSeq(src, from, s - 1))
             IN  (IF text = <<>> THEN <<Blank>> ELSE text) \o <<Blank>>

\* the body_lines of one step (sync.py 139-142)
StepBodyLines(step) ==
    << Blank, Ln(1, <<W("step"), W("("), Q(step.name), W(")")>>) >>
    \o [i \in DOMAIN step.code |->
          IF IsBlank(step.code[i]) THEN Blank
          ELSE Ln(step.code[i].ind + 1, step.code[i].toks)]

RECURSIVE AllStepBodyLines(_)
AllStepBodyLines(steps) ==
    IF steps = <<>> THEN <<>>
    ELSE StepBodyLines(Head(steps)) \o AllStepBodyLines(Tail(steps))

\* new_source (sync.py 102-146); d is the line transform_match found
NewSource(src, d, steps) ==
    LET ds == DocstringIndex(src, d)
    IN  SubSeq(src, 1, d)
        \o (IF ds # 0 THEN <<src[ds], Blank>> ELSE <<>>)
        \o SyncSetupCode(src, d)
        \o AllStepBodyLines(steps)
        \o << Blank, Ln(1, Ws(<<"return", "df">>)) >>

\* what sync_notebook raises, "" when it reaches the backup
SyncFailure(notebook_source, transformer_source) ==
    LET cells == ExtractCells(notebook_source, 1)
    IN  IF cells = <<>> THEN "No cells found in notebook."
        ELSE IF ExtractSteps(cells, 1, 0) = <<>> THEN "No step cells found in notebook."
        ELSE IF FindTransformFunction(transformer_source) = 0
        THEN "Could not find transform() function in transformer."
        ELSE ""

\* the text sync_notebook writes for a notebook and a transformer it accepts
SyncNewSource(notebook_source, transformer_source) ==
    NewSource(transformer_source, FindTransformFunction(transformer_source),
              ExtractSteps(ExtractCells(notebook_source, 1), 1, 0))

(***************************************************************************)
(* The transformer scripts the model starts from.                          *)
(***************************************************************************)
\* the source lines of one statement of a step, at the indentation of the body
Stmt(kind) ==
    CASE kind = "assign" ->
           << Ln(0, Ws(<<"df", "=", "filter_not_null", "(", "df", ")">>)) >>
      [] kind = "paren" ->
           << Ln(0, Ws(<<"df", "=", "merge_left", "(", "df", ",">>)),
              Ln(1, Ws(<<"other", "(", "df", ")">>)),
              Ln(0, Ws(<<")">>)) >>
      [] kind = "square" ->
           << Ln(0, Ws(<<"df", "=", "df", "[">>)),
              Ln(1, Ws(<<"df", ">", "0">>)),
              Ln(0, Ws(<<"]">>)) >>
      [] kind = "read" ->
           << Ln(0, Ws(<<"print", "(", "df", ")">>)) >>
      [] kind = "ifblank" ->
           << Ln(0, Ws(<<"if", "other", ":">>)),
              Ln(1, Ws(<<"print", "(", "df", ")">>)),
              Blank,
              Ln(1, Ws(<<"print", "(", "other", ")">>)) >>
      [] kind = "filter_date" ->
           << Ln(0, Ws(<<"df", "=", "filter_date", "(", "df", ")">>)) >>
      [] kind = "decorated" ->
           << Ln(0, Ws(<<"@", "cache">>)),
              Ln(0, Ws(<<"def", "clean", "(", "v", ")", ":">>)),
              Ln(1, Ws(<<"return", "v">>)),
              Ln(0, Ws(<<"df", "=", "apply_column", "(", "df", ",", "clean", ")">>)) >>
      [] kind = "df_1" ->
           << Ln(0, Ws(<<"df_1", "=", "other", "(", "df", ")">>)),
              Ln(0, Ws(<<"df", "=", "merge_left", "(", "df", ",", "df_1", ")">>)) >>

StepNames == <<"Filter", "Clean", "Select", "Merge">>

Layouts ==
    { [doc |-> TRUE, srcs |-> TRUE, setup |-> TRUE, desc |-> TRUE, tail |-> TRUE],
      [doc |-> FALSE, srcs |-> FALSE, setup |-> FALSE, desc |-> FALSE, tail |-> FALSE] }

\* the code of a step: nothing, one assignment, a read and two assignments
\* the first continued inside ( ), two assignments the first continued
\* inside [ ], a compound statement with a blank line in it
StepCodes ==
    { <<>>,
      Stmt("assign"),
      Stmt("read") \o Stmt("paren") \o Stmt("assign"),
      Stmt("square") \o Stmt("assign"),
      Stmt("ifblank") }

\* a plan: the code of each step of the script, in order
Plans == UNION {[1..n -> StepCodes] : n \in 0..MaxSteps}

\* the statements of a body without step markers
LooseCode(pl) == IF Len(pl) = 0 THEN Stmt("assign") ELSE <<>>

RECURSIVE PlanBody(_, _, _)
PlanBody(pl, lay, step_num) ==
    IF step_num > Len(pl) THEN <<>>
    ELSE << Ln(0, <<W("step"), W("("), Q(StepNames[step_num])>>
                  \o (IF lay.desc THEN <<W(","), Q("description")>> ELSE <<>>)
                  \o <<W(")")>>) >>
         \o pl[step_num] \o <<Blank>>
         \o PlanBody(pl, lay, step_num + 1)

DefLine == Ln(0, Ws(<<"def", "transform", "(", "sources", ")", ":">>))

\* the text of the script of a layout and a plan
ScriptText(lay, pl) ==
    (IF lay.doc THEN << Ln(0, <<Q("Customer transformer")>>) >> ELSE <<>>)
    \o << Ln(0, Ws(<<"from", "migrator_studio", "import", "step">>)), Blank >>
    \o (IF lay.srcs
        THEN << Ln(0, <<W("SOURCES"), W("="), W("["), Q("DAT-1"), W("]")>>), Blank >>
        ELSE <<>>)
    \o << DefLine >>
    \o Indent(
         (IF lay.doc THEN << Ln(0, <<Q("Transform customers")>>) >> ELSE <<>>)
         \o (IF lay.setup
             THEN << Ln(0, <<W("df"), W("="), W("sources"), W("["), Q("DAT-1"), W("]")>>),
                     Ln(0, <<W("#"), W("lookup table")>>),
                     Ln(0, <<W("other"), W("="), W("sources"), W("["), Q("DAT-1"), W("]")>>) >>
             ELSE <<>>)
         \o LooseCode(pl), 1)
    \o << Blank >>
    \o [i \in DOMAIN PlanBody(pl, lay, 1) |->
          LET line == PlanBody(pl, lay, 1)[i]
          IN  IF IsBlank(line) THEN Blank ELSE Ln(line.ind + 1, line.toks)]
    \o << Ln(1, Ws(<<"return", "df">>)) >>
    \o (IF lay.tail
        THEN << Blank, Ln(0, <<W("if"), W("__name__"), W("=="), Q("__main__"), W(":")>>),
                Ln(1, Ws(<<"main", "(", ")">>)) >>
        ELSE <<>>)

\* a script without the entry point
NoTransformScript ==
    << Ln(0, Ws(<<"def", "helper", "(", "sources", ")", ":">>)),
       Ln(1, Ws(<<"return", "sources">>)) >>

\* a script whose entry point does nothing: its body is the return alone
EmptyBodyScript ==
    << Ln(0, Ws(<<"from", "migrator_studio", "import", "step">>)), Blank,
       DefLine,
       Ln(1, Ws(<<"return", "df">>)) >>

\* an assignment in which df is also the parameter of a lambda
LambdaStmt ==
    << Ln(0, Ws(<<"df", "=", "df", ".", "apply", "(", "lambda", "df", ":",
                  "df", ".", "strip", "(", ")", ")">>)) >>

\* a script with one step, whose code binds df in a nested scope
LambdaScript ==
    ScriptText(CHOOSE lay \in Layouts : ~lay.setup, << LambdaStmt >>)

\* the scripts `dev` is run on; the last three have one step, which calls an
\* operation the Imports cell does not return, defines a decorated function,
\* or uses a name of the form df_<n>
Scripts ==
    {ScriptText(lay, pl) : lay \in Layouts, pl \in Plans}
        \cup {NoTransformScript, EmptyBodyScript, LambdaScript}
        \cup {ScriptText(CHOOSE lay \in Layouts : ~lay.setup, << Stmt(kind) >>) :
                 kind \in {"filter_date", "decorated", "df_1"}}

(***************************************************************************)
(* The file system and the commands `migrator dev` and `migrator sync`.     *)
(***************************************************************************)
VARIABLES
    script,       \* content of <name>.py
    backup,       \* content of <name>.py.bak, NoFile while it does not exist
    notebook,     \* content of <name>.nb.py, NoFile while it does not exist
    pc,           \* per sync process: the statement of sync_notebook it is at
    local,        \* per sync process: the local variables of sync_notebook
    exit_code,    \* exit code of the command that finished last, -1 before
    message,      \* what that command reported
    cmds,         \* number of commands started
    edited,       \* whether the user edited a file since the last `dev`
    gen_nb,       \* history: the notebook as `dev` wrote it last
    gen_from,     \* history: the script that notebook was generated from
    pre_script,   \* history, per sync process: the script when sync started
    pre_backup    \* history, per sync process: the backup when sync started

(***************************************************************************)
(* Build mode: the BuildSession objects and the tracker of operations.      *)
(***************************************************************************)
VARIABLES
    active_session,  \* _tracking.py: the ContextVar _active_session
    tracker,         \* per BuildSession object: its _tracker
    operations,      \* per SessionTracker, in order of creation: its operations
    open,            \* the sessions entered and not exited since
    current,         \* the session entered last, None once any session exited
    calls            \* per session: the operations called while it was current

session_vars == <<active_session, tracker, operations, open, current, calls>>

\* Optional[SessionTracker]: None, or the number of a tracker
None == 0
\* the BuildSession objects of the program
Sessions == {1, 2}

vars == <<script, backup, notebook, pc, local, exit_code, message, cmds, edited,
          gen_nb, gen_from, pre_script, pre_backup,
          active_session, tracker, operations, open, current, calls>>

Procs == {1, 2}

NoLocal == [notebook_source |-> <<>>, transformer_source |-> <<>>,
            steps |-> <<>>, new_source |-> <<>>]

\* a slip: the script overwritten before the backup is taken
SyncOrderWriteFirst ==
    <<"read", "extract", "rebuild", "write_open", "write_data",
      "backup_open", "backup_copy">>

\* a slip: the backup taken before the notebook and the script are examined
SyncOrderBackupFirst ==
    <<"read", "backup_open", "backup_copy", "extract", "rebuild",
      "write_open", "write_data">>

\* the statements of sync_notebook in program order (sync.py 81-152)
SyncOrder ==
    <<"read", "extract", "rebuild", "backup_open", "backup_copy",
      "write_open", "write_data">>

PcAfter(at) ==
    LET i == CHOOSE j \in DOMAIN SyncOrder : SyncOrder[j] = at
    IN  IF i = Len(SyncOrder) THEN "done" ELSE SyncOrder[i + 1]

Idle == \A p \in Procs : pc[p] = "idle"

Init ==
    /\ script \in Scripts
    /\ backup = NoFile
    /\ notebook = NoFile
    /\ pc = [p \in Procs |-> "idle"]
    /\ local = [p \in Procs |-> NoLocal]
    /\ exit_code = -1
    /\ message = ""
    /\ cmds = 0
    /\ edited = FALSE
    /\ gen_nb = NoFile
    /\ gen_from = NoFile
    /\ pre_script = [p \in Procs |-> NoFile]
    /\ pre_backup = [p \in Procs |-> NoFile]
    /\ active_session = None
    /\ tracker = [s \in Sessions |-> None]
    /\ operations = <<>>
    /\ open = {}
    /\ current = None
    /\ calls = [s \in Sessions |-> <<>>]

(***************************************************************************)
(* migrator dev (cli/main.py 81-109)                                       *)
(***************************************************************************)
\* parse_transformer raises: exit 1; otherwise the notebook is written
Dev ==
    /\ Idle /\ cmds < MaxCmds
    /\ cmds' = cmds + 1
    /\ LET ast == ParseTransformer(script)
       IN  IF ~ast.ok
           THEN /\ exit_code' = 1
                /\ message' = "Error parsing transformer"
                /\ UNCHANGED <<notebook, edited, gen_nb, gen_from>>
           ELSE /\ notebook' = GenerateNotebook(ast)
                /\ gen_nb' = notebook'
                /\ gen_from' = script
                /\ exit_code' = 0
                /\ message' = "Generated notebook"
                /\ edited' = FALSE
    /\ UNCHANGED <<script, backup, pc, local, pre_script, pre_backup, session_vars>>

(***************************************************************************)
(* The user edited the notebook outside its Step cells, or the script.       *)
(***************************************************************************)
\* indices of the @app.cell lines of a notebook
CellStarts(nb) == {i \in DOMAIN nb : IsAppCell(nb[i])}
\* the line after the block of the cell that starts at line i
BlockEnd(nb, i) ==
    LET later == {j \in DOMAIN nb : j > i /\ (IsAppCell(nb[j]) \/
                                             (nb[j].ind = 0 /\ ~IsBlank(nb[j])
                                              /\ j > i + 1))}
    IN  IF later = {} THEN Len(nb) + 1 ELSE CHOOSE j \in later : \A k \in later : j <= k
\* whether the cell that starts at line i is a Step cell
StartsStepCell(nb, i) ==
    i + 2 <= Len(nb) /\ nb[i + 2].ind = 1 /\ IsStepHeader(Ln(0, nb[i + 2].toks))

UserDeletesCell(i) ==
    /\ Idle /\ ~edited /\ cmds < MaxCmds /\ notebook # NoFile
    /\ i \in CellStarts(notebook) /\ ~StartsStepCell(notebook, i)
    /\ notebook' = SubSeq(notebook, 1, i - 1)
                   \o SubSeq(notebook, BlockEnd(notebook, i), Len(notebook))
    /\ edited' = TRUE
    /\ UNCHANGED <<script, backup, pc, local, exit_code, message, cmds, gen_nb,
                   gen_from, pre_script, pre_backup, session_vars>>

UserEditsCell(i) ==
    /\ Idle /\ ~edited /\ cmds < MaxCmds /\ notebook # NoFile
    /\ i \in CellStarts(notebook) /\ ~StartsStepCell(notebook, i)
    /\ notebook' = SubSeq(notebook, 1, i + 1)
                   \o << Ln(1, Ws(<<"import", "os">>)) >>
                   \o SubSeq(notebook, i + 2, Len(notebook))
    /\ edited' = TRUE
    /\ UNCHANGED <<script, backup, pc, local, exit_code, message, cmds, gen_nb,
                   gen_from, pre_script, pre_backup, session_vars>>

UserEditsHeader ==
    /\ Idle /\ ~edited /\ cmds < MaxCmds /\ notebook # NoFile
    /\ notebook' = << Ln(0, <<W("#"), W("my notes")>>) >> \o notebook
    /\ edited' = TRUE
    /\ UNCHANGED <<script, backup, pc, local, exit_code, message, cmds, gen_nb,
                   gen_from, pre_script, pre_backup, session_vars>>

UserClearsNotebook ==
    /\ Idle /\ ~edited /\ cmds < MaxCmds /\ notebook # NoFile
    /\ notebook' = <<>>
    /\ edited' = TRUE
    /\ UNCHANGED <<script, backup, pc, local, exit_code, message, cmds, gen_nb,
                   gen_from, pre_script, pre_backup, session_vars>>

UserRenamesTransform ==
    /\ Idle /\ ~edited /\ cmds < MaxCmds /\ notebook # NoFile
    /\ FindTransformFunction(script) # 0
    /\ script' = [script EXCEPT ![FindTransformFunction(script)] =
                     Ln(0, Ws(<<"def", "transform_v2", "(", "sources", ")", ":">>))]
    /\ edited' = TRUE
    /\ UNCHANGED <<backup, notebook, pc, local, exit_code, message, cmds, gen_nb,
                   gen_from, pre_script, pre_backup, session_vars>>

(***************************************************************************)
(* The user edits a Step cell of the notebook.                              *)
(***************************************************************************)
\* the lines of the cell that starts at line i, trailing blank lines dropped
CellBlock(nb, i) == RStripLines(SubSeq(nb, i, BlockEnd(nb, i) - 1))
\* the name the Step cell that starts at line i returns
OutputOf(nb, i) ==
    LET block == CellBlock(nb, i)
        last == block[Len(block)]
    IN  IF IsReturnStmt(last) /\ Len(last.toks) >= 2 THEN last.toks[2].s ELSE ""

CanEditStepCell(i) ==
    /\ Idle /\ ~edited /\ cmds < MaxCmds /\ notebook # NoFile
    /\ i \in CellStarts(notebook) /\ StartsStepCell(notebook, i)

\* new statements under the step header, with or without a blank line
UserEditsStepBody(i, gap) ==
    /\ CanEditStepCell(i)
    /\ notebook' = SubSeq(notebook, 1, i + 2)
                   \o << Ln(1, Ws(<<"other", "=", "clean", "(", "other", ")">>)) >>
                   \o (IF gap THEN <<Blank>> ELSE <<>>)
                   \o << Ln(1, Ws(<<"print", "(", "other", ")">>)) >>
                   \o SubSeq(notebook, i + 3, Len(notebook))
    /\ edited' = TRUE
    /\ UNCHANGED <<script, backup, pc, local, exit_code, message, cmds, gen_nb,
                   gen_from, pre_script, pre_backup, session_vars>>

\* the variable the cell returns gets another name throughout the cell
UserRenamesOutput(i) ==
    /\ CanEditStepCell(i)
    /\ OutputOf(notebook, i) # ""
    /\ LET e == BlockEnd(notebook, i)
           out == OutputOf(notebook, i)
       IN  notebook' =
             [j \in DOMAIN notebook |->
                IF j > i + 2 /\ j < e
                THEN Ln(notebook[j].ind,
                        [t \in DOMAIN notebook[j].toks |->
                           IF notebook[j].toks[t] = W(out) THEN W("result")
                           ELSE notebook[j].toks[t]])
                ELSE notebook[j]]
    /\ edited' = TRUE
    /\ UNCHANGED <<script, backup, pc, local, exit_code, message, cmds, gen_nb,
                   gen_from, pre_script, pre_backup, session_vars>>

UserDeletesStepCell(i) ==
    /\ CanEditStepCell(i)
    /\ notebook' = SubSeq(notebook, 1, i - 1)
                   \o SubSeq(notebook, BlockEnd(notebook, i), Len(notebook))
    /\ edited' = TRUE
    /\ UNCHANGED <<script, backup, pc, local, exit_code, message, cmds, gen_nb,
                   gen_from, pre_script, pre_backup, session_vars>>

\* a structural marker of the cell is lost: the @app.cell line, the
\* def __(...) line or the return line
UserRemovesMarker(i, marker) ==
    /\ CanEditStepCell(i)
    /\ LET at == CASE marker = "decorator" -> i
                   [] marker = "def" -> i + 1
                   [] marker = "return" -> i + Len(CellBlock(notebook, i)) - 1
       IN  notebook' = SubSeq(notebook, 1, at - 1)
                       \o SubSeq(notebook, at + 1, Len(notebook))
    /\ edited' = TRUE
    /\ UNCHANGED <<script, backup, pc, local, exit_code, message, cmds, gen_nb,
                   gen_from, pre_script, pre_backup, session_vars>>

(***************************************************************************)
(* migrator sync (cli/main.py 127-168) and sync_notebook (sync.py 70-152)  *)
(***************************************************************************)
SyncNoNotebook(p) ==
    /\ pc[p] = "idle" /\ cmds < MaxCmds
    /\ notebook = NoFile
    /\ exit_code' = 1
    /\ message' = "Notebook not found"
    /\ cmds' = cmds + 1
    /\ UNCHANGED <<script, backup, notebook, pc, local, edited, gen_nb, gen_from,
                   pre_script, pre_backup, session_vars>>

SyncCommand(p) ==
    /\ pc[p] = "idle" /\ cmds < MaxCmds
    /\ notebook # NoFile
    /\ pc' = [pc EXCEPT ![p] = SyncOrder[1]]
    /\ local' = [local EXCEPT ![p] = NoLocal]
    /\ pre_script' = [pre_script EXCEPT ![p] = script]
    /\ pre_backup' = [pre_backup EXCEPT ![p] = backup]
    /\ cmds' = cmds + 1
    /\ UNCHANGED <<script, backup, notebook, exit_code, message, edited, gen_nb,
                   gen_from, session_vars>>

Raise(p, msg) ==
    /\ pc' = [pc EXCEPT ![p] = "failed"]
    /\ exit_code' = 1
    /\ message' = msg

\* sync.py 81-82
SyncRead(p) ==
    /\ pc[p] = "read"
    /\ local' = [local EXCEPT ![p].notebook_source = notebook,
                              ![p].transformer_source = script]
    /\ pc' = [pc EXCEPT ![p] = PcAfter("read")]
    /\ UNCHANGED <<script, backup, notebook, exit_code, message, cmds, edited,
                   gen_nb, gen_from, pre_script, pre_backup, session_vars>>

\* sync.py 84-100
SyncExtract(p) ==
    /\ pc[p] = "extract"
    /\ LET cells == ExtractCells(local[p].notebook_source, 1)
           steps == ExtractSteps(cells, 1, 0)
       IN  IF cells = <<>>
           THEN Raise(p, "No cells found in notebook.") /\ UNCHANGED local
           ELSE IF steps = <<>>
           THEN Raise(p, "No step cells found in notebook.") /\ UNCHANGED local
           ELSE /\ local' = [local EXCEPT ![p].steps = steps]
                /\ pc' = [pc EXCEPT ![p] = PcAfter("extract")]
                /\ UNCHANGED <<exit_code, message>>
    /\ UNCHANGED <<script, backup, notebook, cmds, edited, gen_nb, gen_from,
                   pre_script, pre_backup, session_vars>>

\* sync.py 102-146
SyncRebuild(p) ==
    /\ pc[p] = "rebuild"
    /\ LET d == FindTransformFunction(local[p].transformer_source)
       IN  IF d = 0
           THEN Raise(p, "Could not find transform() function in transformer.")
                /\ UNCHANGED local
           ELSE /\ local' = [local EXCEPT ![p].new_source =
                               NewSource(local[p].transformer_source, d, local[p].steps)]
                /\ pc' = [pc EXCEPT ![p] = PcAfter("rebuild")]
                /\ UNCHANGED <<exit_code, message>>
    /\ UNCHANGED <<script, backup, notebook, cmds, edited, gen_nb, gen_from,
                   pre_script, pre_backup, session_vars>>

\* write() at offset 0 of a file opened with "w": the data, then what the file
\* already held beyond the data (nothing, unless another process has written
\* the file since this one truncated it)
WriteAtStart(old, data) == data \o SubSeq(old, Len(data) + 1, Len(old))

\* sync.py 149-150: shutil.copy2 opens the backup for writing ...
SyncBackupOpen(p) ==
    /\ pc[p] = "backup_open"
    /\ backup' = <<>>
    /\ pc' = [pc EXCEPT ![p] = PcAfter("backup_open")]
    /\ UNCHANGED <<script, notebook, local, exit_code, message, cmds, edited,
                   gen_nb, gen_from, pre_script, pre_backup, session_vars>>

\* a slip: a backup that exists already is kept as it was
SyncBackupCopyOnce(p) ==
    /\ pc[p] = "backup_copy"
    /\ backup' = IF pre_backup[p] = NoFile THEN WriteAtStart(backup, script)
                 ELSE pre_backup[p]
    /\ pc' = [pc EXCEPT ![p] = PcAfter("backup_copy")]
    /\ UNCHANGED <<script, notebook, local, exit_code, message, cmds, edited,
                   gen_nb, gen_from, pre_script, pre_backup, session_vars>>

\* ... and copies the content of the script file into it
SyncBackupCopy(p) ==
    /\ pc[p] = "backup_copy"
    /\ backup' = WriteAtStart(backup, script)
    /\ pc' = [pc EXCEPT ![p] = PcAfter("backup_copy")]
    /\ UNCHANGED <<script, notebook, local, exit_code, message, cmds, edited,
                   gen_nb, gen_from, pre_script, pre_backup, session_vars>>

\* sync.py 152: write_text opens the script for writing, truncating it ...
SyncWriteOpen(p) ==
    /\ pc[p] = "write_open"
    /\ script' = <<>>
    /\ pc' = [pc EXCEPT ![p] = PcAfter("write_open")]
    /\ UNCHANGED <<backup, notebook, local, exit_code, message, cmds, edited,
                   gen_nb, gen_from, pre_script, pre_backup, session_vars>>

\* ... and writes new_source
SyncWriteData(p) ==
    /\ pc[p] = "write_data"
    /\ script' = WriteAtStart(script, local[p].new_source)
    /\ pc' = [pc EXCEPT ![p] = PcAfter("write_data")]
    /\ UNCHANGED <<backup, notebook, local, exit_code, message, cmds, edited,
                   gen_nb, gen_from, pre_script, pre_backup, session_vars>>

\* cli/main.py 165: "Sync complete."
SyncComplete(p) ==
    /\ pc[p] = "done"
    /\ pc' = [pc EXCEPT ![p] = "complete"]
    /\ exit_code' = 0
    /\ message' = "Sync complete."
    /\ UNCHANGED <<script, backup, notebook, local, cmds, edited, gen_nb, gen_from,
                   pre_script, pre_backup, session_vars>>

\* the process of the command has exited; the next command may start
SyncExit(p) ==
    /\ pc[p] \in {"complete", "failed"}
    /\ pc' = [pc EXCEPT ![p] = "idle"]
    /\ UNCHANGED <<script, backup, notebook, local, exit_code, message, cmds, edited,
                   gen_nb, gen_from, pre_script, pre_backup, session_vars>>

SyncStep(p) ==
    \/ SyncRead(p) \/ SyncExtract(p) \/ SyncRebuild(p)
    \/ SyncBackupOpen(p) \/ SyncBackupCopy(p)
    \/ SyncWriteOpen(p) \/ SyncWriteData(p)
    \/ SyncComplete(p) \/ SyncExit(p)

UserEdit ==
    \/ \E i \in DOMAIN notebook : UserDeletesCell(i)
    \/ \E i \in DOMAIN notebook : UserEditsCell(i)
    \/ UserEditsHeader
    \/ UserClearsNotebook
    \/ UserRenamesTransform

\* one developer, one command at a time
Next ==
    \/ Dev
    \/ UserEdit
    \/ SyncNoNotebook(1)
    \/ SyncCommand(1)
    \/ SyncStep(1)

Spec == Init /\ [][Next]_vars

UserStepEdit ==
    \/ \E i \in DOMAIN notebook : \E gap \in BOOLEAN : UserEditsStepBody(i, gap)
    \/ \E i \in DOMAIN notebook : UserRenamesOutput(i)
    \/ \E i \in DOMAIN notebook : UserDeletesStepCell(i)
    \/ \E i \in DOMAIN notebook :
          \E marker \in {"decorator", "def", "return"} : UserRemovesMarker(i, marker)

\* the developer also edits the Step cells
NextStepEdits ==
    \/ Next
    \/ UserStepEdit

StepEditSpec == Init /\ [][NextStepEdits]_vars

(***************************************************************************)
(* Two `migrator sync` processes started on the same script, whose notebook  *)
(* `migrator dev` has generated: their statements interleave freely.         *)
(***************************************************************************)
\* the scripts of the layout that has every optional part
RaceScripts == {ScriptText(lay, pl) : lay \in {l \in Layouts : l.setup}, pl \in Plans}

RaceInit ==
    /\ script \in {t \in RaceScripts : ParseTransformer(t).ok}
    /\ backup = NoFile
    /\ notebook = GenerateNotebook(ParseTransformer(script))
    /\ pc = [p \in Procs |-> "idle"]
    /\ local = [p \in Procs |-> NoLocal]
    /\ exit_code = 0
    /\ message = "Generated notebook"
    /\ cmds = 0
    /\ edited = FALSE
    /\ gen_nb = notebook
    /\ gen_from = script
    /\ pre_script = [p \in Procs |-> NoFile]
    /\ pre_backup = [p \in Procs |-> NoFile]
    /\ active_session = None
    /\ tracker = [s \in Sessions |-> None]
    /\ operations = <<>>
    /\ open = {}
    /\ current = None
    /\ calls = [s \in Sessions |-> <<>>]

\* the developer has started one sync, removes a Step cell from the notebook
\* that sync has read, and is about to start the other sync
UserDeletesStepCellMeanwhile(i) ==
    /\ ~edited /\ notebook # NoFile
    /\ pc[1] = "extract" /\ pc[2] = "idle" /\ pre_script[2] = NoFile
    /\ i \in CellStarts(notebook) /\ StartsStepCell(notebook, i)
    /\ notebook' = SubSeq(notebook, 1, i - 1)
                   \o SubSeq(notebook, BlockEnd(notebook, i), Len(notebook))
    /\ edited' = TRUE
    /\ UNCHANGED <<script, backup, pc, local, exit_code, message, cmds, gen_nb,
                   gen_from, pre_script, pre_backup, session_vars>>

\* each process is one invocation of the command
RaceNext ==
    \/ \E p \in Procs : pre_script[p] = NoFile /\ SyncCommand(p)
    \/ \E p \in Procs : SyncStep(p)
    \/ \E i \in DOMAIN notebook : UserDeletesStepCellMeanwhile(i)

RaceSpec == RaceInit /\ [][RaceNext]_vars

(***************************************************************************)
(* `migrator sync` run again and again on a script whose notebook           *)
(* `migrator dev` has generated; between two runs the developer may remove  *)
(* a Step cell from the notebook.                                           *)
(***************************************************************************)
ResyncNext ==
    \/ SyncCommand(1)
    \/ SyncStep(1)
    \/ \E i \in DOMAIN notebook : UserDeletesStepCell(i)

ResyncSpec == RaceInit /\ [][ResyncNext]_vars

(***************************************************************************)
(* BuildSession (session.py), the tracker (_tracking.py) and the wrapper    *)
(* of the tracked operations (operations/_base.py).                         *)
(***************************************************************************)
MaxEnters == 3
MaxCalls == 2

\* operations/_tracking.py 67-73: the ContextVar the wrapper of the tracked
\* operations reads. It is another object than the _active_session of
\* _tracking.py, which BuildSession sets; nothing in the package sets it.
OperationsActiveSession == None

\* session.history (session.py 99-103)
History(s) == IF tracker[s] = None THEN <<>> ELSE operations[tracker[s]]

\* BuildSession.__enter__: a new SessionTracker, made the active session
Enter(s) ==
    /\ s \notin open /\ Len(operations) < MaxEnters
    /\ operations' = Append(operations, <<>>)
    /\ tracker' = [tracker EXCEPT ![s] = Len(operations) + 1]
    /\ active_session' = Len(operations) + 1
    /\ open' = open \cup {s}
    /\ current' = s
    /\ calls' = [calls EXCEPT ![s] = <<>>]
    /\ UNCHANGED <<script, backup, notebook, pc, local, exit_code, message, cmds, edited,
                   gen_nb, gen_from, pre_script, pre_backup>>

\* a slip: the exit hands the context back to a session that is still open
ExitRestoresOuter(s) ==
    /\ s \in open
    /\ active_session' = IF open \ {s} = {} THEN None
                         ELSE tracker[CHOOSE t \in open \ {s} : TRUE]
    /\ open' = open \ {s}
    /\ current' = None
    /\ UNCHANGED <<tracker, operations, calls>>
    /\ UNCHANGED <<script, backup, notebook, pc, local, exit_code, message, cmds, edited,
                   gen_nb, gen_from, pre_script, pre_backup>>

\* BuildSession.__exit__: set_active_session(None)
Exit(s) ==
    /\ s \in open
    /\ active_session' = None
    /\ open' = open \ {s}
    /\ current' = None
    /\ UNCHANGED <<tracker, operations, calls>>
    /\ UNCHANGED <<script, backup, notebook, pc, local, exit_code, message, cmds, edited,
                   gen_nb, gen_from, pre_script, pre_backup>>

\* a call of a tracked operation: wrapper (operations/_base.py 36-77). The
\* record is made after func has returned, so a call that raises leaves none.
Call(op, raises) ==
    /\ current # None => Len(calls[current]) < MaxCalls
    /\ LET session == OperationsActiveSession
       IN  IF session = None \/ raises
           THEN UNCHANGED operations
           ELSE operations' = [operations EXCEPT ![session] = Append(@, op)]
    /\ calls' = IF current # None /\ ~raises
                THEN [calls EXCEPT ![current] = Append(@, op)]
                ELSE calls
    /\ UNCHANGED <<active_session, tracker, open, current>>
    /\ UNCHANGED <<script, backup, notebook, pc, local, exit_code, message, cmds, edited,
                   gen_nb, gen_from, pre_script, pre_backup>>

SessionInit == Init /\ script = EmptyBodyScript

SessionNext ==
    \/ \E s \in Sessions : Enter(s)
    \/ \E s \in Sessions : Exit(s)
    \/ \E op \in {"str_strip", "str_upper"} : \E raises \in BOOLEAN : Call(op, raises)

SessionSpec == SessionInit /\ [][SessionNext]_vars

(***************************************************************************)
(* click checks the TRANSFORMER argument of dev and sync before the         *)
(* command runs (cli/main.py 26, 128: click.Path(exists=True)).             *)
(***************************************************************************)
\* a slip: a path that names no file reported like any other failure
PathDoesNotExistExitsOne ==
    /\ Idle /\ cmds < MaxCmds
    /\ cmds' = cmds + 1
    /\ exit_code' = 1
    /\ message' = "Path does not exist"
    /\ UNCHANGED <<script, backup, notebook, pc, local, edited, gen_nb, gen_from,
                   pre_script, pre_backup, session_vars>>

\* the path given to the command names no file: click's usage error
PathDoesNotExist ==
    /\ Idle /\ cmds < MaxCmds
    /\ cmds' = cmds + 1
    /\ exit_code' = 2
    /\ message' = "Path does not exist"
    /\ UNCHANGED <<script, backup, notebook, pc, local, edited, gen_nb, gen_from,
                   pre_script, pre_backup, session_vars>>

\* the developer also mistypes the path of the script
NextCli ==
    \/ Next
    \/ PathDoesNotExist

CliSpec == Init /\ [][NextCli]_vars

\* what dev and sync print with click.echo(..., err=True) before sys.exit(1)
StderrMessages ==
    {"Error parsing transformer", "Notebook not found",
     "No cells found in notebook.", "No step cells found in notebook.",
     "Could not find transform() function in transformer."}
\* what dev and sync print last on standard output when they succeed
StdoutMessages == {"Generated notebook", "Sync complete."}

(***************************************************************************)
(* Reading a notebook the way the host runtime does: every @app.cell       *)
(* function with its parameters, its whole body and what it returns.        *)
(***************************************************************************)
RECURSIVE SortedStarts(_, _)
SortedStarts(nb, i) ==
    IF i > Len(nb) THEN <<>>
    ELSE (IF IsAppCell(nb[i]) THEN <<i>> ELSE <<>>) \o SortedStarts(nb, i + 1)

NotebookCells(nb) ==
    LET starts == SortedStarts(nb, 1)
    IN  [k \in DOMAIN starts |->
           LET i == starts[k]
               e == BlockEnd(nb, i)
               body == RStripLines(SubSeq(nb, i + 2, e - 1))
           IN  [deps |-> IF i + 1 <= Len(nb) /\ IsCellDef(nb[i + 1])
                         THEN SubSeq(nb[i + 1].toks, 4, Len(nb[i + 1].toks) - 2)
                         ELSE <<>>,
                body |-> [j \in DOMAIN body |->
                            Ln(IF body[j].ind > 0 THEN body[j].ind - 1 ELSE 0,
                               body[j].toks)]]]

CellKind(cell) ==
    IF cell.body = <<>> THEN "Other"
    ELSE IF IsStepHeader(cell.body[1]) THEN "Step"
    ELSE IF cell.body[1].toks = Ws(<<"import", "sys">>) THEN "Imports"
    ELSE IF cell.body[1].toks = <<W("#"), W("Load source data")>> THEN "SourceLoad"
    ELSE IF cell.body[1].toks = <<W("#"), W("Final Result")>> THEN "Result"
    ELSE "Other"

CellKinds(nb) == [k \in DOMAIN NotebookCells(nb) |-> CellKind(NotebookCells(nb)[k])]
StepCellsOf(nb) == SelectSeq(NotebookCells(nb), LAMBDA c : CellKind(c) = "Step")

DeclaredInputs(cell) == {cell.deps[i].s : i \in DOMAIN cell.deps}
DeclaredOutputs(cell) ==
    LET last == cell.body[Len(cell.body)]
    IN  IF cell.body # <<>> /\ last.ind = 0 /\ IsReturnStmt(last)
        THEN [i \in 1..(Len(last.toks) - 1) |-> last.toks[i + 1].s]
        ELSE <<>>

\* the notebook on disk is the one `dev` generated, unedited
Generated == notebook # NoFile /\ notebook = gen_nb
\* `dev` has just written the notebook
JustGenerated == Generated /\ Idle /\ message = "Generated notebook"
GenSteps == ParseTransformer(gen_from).steps

\* sync has written the script from the unedited notebook of that script
SyncedUnedited ==
    /\ pc[1] \in {"done", "complete"}
    /\ local[1].notebook_source = gen_nb
    /\ pre_script[1] = gen_from

(***************************************************************************)
(* Statement structure of a step's code: Python's logical lines.            *)
(***************************************************************************)
RECURSIVE DepthBefore(_, _)
DepthBefore(code, j) == IF j <= 1 THEN 0 ELSE DepthBefore(code, j - 1) + Depth(code[j - 1])

StartsStmt(code, j) ==
    /\ ~IsBlank(code[j]) /\ ~IsComment(code[j])
    /\ code[j].ind = 0 /\ DepthBefore(code, j) = 0
AssignStmts(code) == {j \in DOMAIN code : StartsStmt(code, j) /\ IsDfAssign(code[j])}
StmtLastLine(code, a) ==
    LET later == {j \in DOMAIN code : j > a /\ StartsStmt(code, j)}
    IN  IF later = {} THEN Len(code)
        ELSE (CHOOSE j \in later : \A k \in later : j <= k) - 1
Least(S) == CHOOSE j \in S : \A k \in S : j <= k
\* token t of line j reads the working variable
IsRef(code, j, t) == code[j].toks[t].s = "df" /\ ~(j \in AssignStmts(code) /\ t = 1)

(***************************************************************************)
(* C1  Round-trip identity: generate then sync on the unedited notebook     *)
(* yields a script that parses to the same number of steps, with the same   *)
(* names in the same order and each step's code equal to the original code  *)
(* in terms of df.                                                          *)
(***************************************************************************)
RoundTripIdentity ==
    SyncedUnedited =>
        LET o == ParseTransformer(pre_script[1])
            r == ParseTransformer(script)
        IN  /\ r.ok
            /\ Len(r.steps) = Len(o.steps)
            /\ \A i \in DOMAIN o.steps :
                  /\ r.steps[i].name = o.steps[i].name
                  /\ r.steps[i].code = o.steps[i].code

(***************************************************************************)
(* C2  Chain invariant: N steps give N Step cells in step order, their      *)
(* declared outputs are single and pairwise distinct, and the declared      *)
(* inputs of Step cell i > 1 include the declared output of Step cell i-1.  *)
(***************************************************************************)
ChainInvariant ==
    JustGenerated =>
        LET sc == StepCellsOf(notebook)
            steps == GenSteps
        IN  /\ Len(sc) = Len(steps)
            /\ \A i \in DOMAIN sc :
                  /\ sc[i].body[1] = StepHeader(i, steps[i].name)
                  /\ Len(DeclaredOutputs(sc[i])) = 1
                  /\ \A j \in DOMAIN sc :
                        i # j => DeclaredOutputs(sc[i]) # DeclaredOutputs(sc[j])
                  /\ i > 1 => DeclaredOutputs(sc[i - 1])[1] \in DeclaredInputs(sc[i])

ChainWitness ==
    /\ JustGenerated /\ Len(GenSteps) = 2
    /\ ~UsesName(StepCellsOf(notebook)[2].body, "df_1")
    /\ "df_1" \in DeclaredInputs(StepCellsOf(notebook)[2])

(***************************************************************************)
(* C3  Idempotence of sync: generate then sync on the unedited notebook     *)
(* leaves the script equal to the original modulo whitespace.               *)
(***************************************************************************)
SyncReproducesScript ==
    SyncedUnedited => FlattenLines(script) = FlattenLines(pre_script[1])

(***************************************************************************)
(* C4  Idempotence of generate: the notebook generated from the script      *)
(* obtained by generate-then-sync has the same cells (count, order,         *)
(* declared inputs, declared outputs, bodies) as the first notebook.        *)
(***************************************************************************)
GenerateIdempotent ==
    SyncedUnedited =>
        /\ ParseTransformer(script).ok
        /\ NotebookCells(GenerateNotebook(ParseTransformer(script)))
             = NotebookCells(gen_nb)

(***************************************************************************)
(* C5  Backup before overwrite: throughout one sync the content the script  *)
(* had when the sync started is in the script file or in the backup file,   *)
(* and once the sync has written the script the backup holds that content.  *)
(***************************************************************************)
InSync(p) == pc[p] \in Range(SyncOrder) \cup {"done", "complete"}

BackupBeforeOverwrite ==
    /\ InSync(1) => (script = pre_script[1] \/ backup = pre_script[1])
    /\ pc[1] \in {"done", "complete"} => backup = pre_script[1]

BackupWitness ==
    /\ pc[1] = "complete"
    /\ backup = pre_script[1]
    /\ script # pre_script[1]

(***************************************************************************)
(* C6  Clean failure: when sync fails (no cells, no Step cells, no          *)
(* transform function) the script keeps its content and the backup file is  *)
(* neither created nor modified.                                            *)
(***************************************************************************)
CleanFailure ==
    pc[1] = "failed" => (script = pre_script[1] /\ backup = pre_backup[1])

CleanFailureWitness ==
    /\ pc[1] = "failed"
    /\ message = "Could not find transform() function in transformer."
    /\ backup = NoFile

(***************************************************************************)
(* C7  The notebook is authoritative only for step bodies: with the Step    *)
(* cells as generated, whatever else of the notebook was edited, sync       *)
(* writes what it writes for the unedited notebook, and the text before     *)
(* the transform function and the setup code are those of the original.     *)
(***************************************************************************)
OnlyStepBodiesAuthoritative ==
    (/\ pc[1] = "complete"
     /\ StepCellsOf(local[1].notebook_source) = StepCellsOf(gen_nb))
    => LET d == FindTransformFunction(pre_script[1])
           o == ParseTransformer(pre_script[1])
           r == ParseTransformer(script)
       IN  /\ script = SyncNewSource(gen_nb, pre_script[1])
           /\ SubSeq(script, 1, d) = SubSeq(pre_script[1], 1, d)
           /\ r.ok => /\ r.module_docstring = o.module_docstring
                      /\ r.sources = o.sources
                      /\ r.setup_code = o.setup_code

OnlyStepBodiesWitness ==
    /\ pc[1] = "complete"
    /\ StepCellsOf(local[1].notebook_source) = StepCellsOf(gen_nb)
    /\ Len(NotebookCells(local[1].notebook_source)) < Len(NotebookCells(gen_nb))
    /\ Len(StepCellsOf(gen_nb)) = 2
    /\ ParseTransformer(script).setup_code # <<>>

(***************************************************************************)
(* C8  Notebook structure: every script with N steps gives exactly N+3      *)
(* cells in the order Imports, SourceLoad, the N Step cells, Result.        *)
(***************************************************************************)
StepKinds(n) == [i \in 1..n |-> "Step"]

NotebookHasNPlus3Cells ==
    JustGenerated =>
        CellKinds(notebook)
          = <<"Imports", "SourceLoad">> \o StepKinds(Len(GenSteps)) \o <<"Result">>

(***************************************************************************)
(* C9  Multi-assignment handling: a step with k >= 2 assignments to df      *)
(* gives one Step cell with one declared output; the left-hand side of      *)
(* every such assignment is the output name; reads of df up to and          *)
(* including the first assignment's right-hand side are the step's input    *)
(* name (the previous cell's output), reads after it are the output name.   *)
(***************************************************************************)
MultiAssignmentHandling ==
    JustGenerated =>
        \A i \in DOMAIN GenSteps :
            LET code == GenSteps[i].code
                A == AssignStmts(code)
                cells == StepCellsOf(notebook)
            IN  Cardinality(A) >= 2 =>
                  /\ Len(cells) = Len(GenSteps)
                  /\ Len(DeclaredOutputs(cells[i])) = 1
                  /\ LET body == cells[i].body
                         out == DeclaredOutputs(cells[i])[1]
                         e == StmtLastLine(code, Least(A))
                     IN  /\ \A j \in A : body[j + 1].toks[1] = W(out)
                         /\ \A j \in DOMAIN code : \A t \in DOMAIN code[j].toks :
                              IsRef(code, j, t) =>
                                 IF j > e THEN body[j + 1].toks[t].s = out
                                 ELSE i > 1 =>
                                      body[j + 1].toks[t].s
                                        = DeclaredOutputs(cells[i - 1])[1]

(***************************************************************************)
(* C10  Multi-line statement integrity: an assignment to df that continues  *)
(* over several lines inside an open bracket stays one statement of the     *)
(* cell, and reads of df on its continuation lines are renamed to the same  *)
(* name as reads of df on its first line.                                   *)
(***************************************************************************)
MultiLineIntegrity ==
    JustGenerated =>
        \A i \in DOMAIN GenSteps :
            LET code == GenSteps[i].code
                body == StepCellsOf(notebook)[i].body
            IN  \A a \in AssignStmts(code) :
                  \A j \in (a + 1)..StmtLastLine(code, a) :
                     DepthBefore(code, j) > 0 =>
                        /\ body[j + 1].ind = code[j].ind
                        /\ \A t \in DOMAIN code[j].toks :
                             \A u \in 3..Len(code[a].toks) :
                                (code[j].toks[t].s = "df" /\ code[a].toks[u].s = "df")
                                => body[j + 1].toks[t] = body[a + 1].toks[u]

(***************************************************************************)
(* C11  No-step fallback: a script whose transform function holds no step   *)
(* marker is parsed into exactly one step holding the whole body, and the   *)
(* notebook generated from it has exactly one Step cell.                    *)
(***************************************************************************)
NoStepMarkers(src) == \A i \in DOMAIN src : IsStepCall(src, i, i) = ""

NoStepFallback ==
    (JustGenerated /\ NoStepMarkers(gen_from)) =>
        /\ Len(GenSteps) = 1
        /\ Len(StepCellsOf(notebook)) = 1

(***************************************************************************)
(* The structural markers of a notebook: every cell starts with @app.cell   *)
(* followed by its def __(...) line, and its body returns at cell level.    *)
(***************************************************************************)
WellFormed(nb) ==
    /\ \A i \in CellStarts(nb) :
          /\ i + 1 <= Len(nb) /\ IsCellDef(nb[i + 1])
          /\ \E j \in (i + 2)..(BlockEnd(nb, i) - 1) :
                nb[j].ind = 1 /\ IsReturnStmt(nb[j])
    /\ \A j \in DOMAIN nb : IsCellDef(nb[j]) => (j > 1 /\ IsAppCell(nb[j - 1]))

\* sync has read a notebook whose Step cells the user edited
ReadEditedSteps ==
    /\ pc[1] \in {"rebuild", "complete"}
    /\ gen_nb # NoFile
    /\ StepCellsOf(local[1].notebook_source) # StepCellsOf(gen_nb)

\* the Step cells as _extract_cells and _is_step_cell hand them to sync
ExtractedStepCells(nb) ==
    SelectSeq(ExtractCells(nb, 1), LAMBDA c : IsStepCell(c) # "")

(***************************************************************************)
(* C12  Edit-tolerant notebook parsing: after an edit of a Step cell's body *)
(* that keeps the structural markers (the body may hold blank lines), the   *)
(* notebook parser recovers the whole dedented body of every Step cell.     *)
(***************************************************************************)
EditTolerantParsing ==
    (ReadEditedSteps /\ WellFormed(local[1].notebook_source)) =>
        LET truth == StepCellsOf(local[1].notebook_source)
            got == ExtractedStepCells(local[1].notebook_source)
        IN  /\ Len(got) = Len(truth)
            /\ \A k \in DOMAIN truth : got[k].body = truth[k].body

(***************************************************************************)
(* C13  Unmappable output is an error: sync does not complete when the      *)
(* output name of a Step cell is not the stage name of the cell's position  *)
(* (the output variable renamed, a Step cell removed).                      *)
(***************************************************************************)
UnmappableOutputIsError ==
    (ReadEditedSteps /\ WellFormed(local[1].notebook_source) /\ pc[1] = "complete") =>
        LET cells == StepCellsOf(local[1].notebook_source)
        IN  \A k \in DOMAIN cells : DeclaredOutputs(cells[k]) = <<StageName(k)>>

(***************************************************************************)
(* C14  Malformed notebook structure is an error: sync does not complete    *)
(* on a notebook one of whose cells lacks a structural marker.              *)
(***************************************************************************)
MalformedStructureIsError ==
    pc[1] = "complete" => WellFormed(local[1].notebook_source)

\* the script has no transform function (parser.py 117-119)
HasNoEntryPoint(src) == FindTransformFunction(src) = 0
\* the transform function of the script holds no statement but its return
HasEmptyBody(src) ==
    LET d == FindTransformFunction(src)
    IN  /\ d # 0
        /\ \A s \in Range(BodyStmts(src, d + 1, FunctionEnd(src, d + 1, d))) :
              IsReturnStmt(src[s[1]])

\* C15: migrator dev on a script that has no transform entry point, or whose
\* entry point has an empty body, fails with a parse error (exit 1) and
\* leaves the notebook file as it was: nothing is written.
ParseFailureWritesNothing ==
    [][(Dev /\ (HasNoEntryPoint(script) \/ HasEmptyBody(script))) =>
          /\ exit_code' = 1
          /\ message' = "Error parsing transformer"
          /\ notebook' = notebook]_vars

\* C16: dev and sync exit with 0 on success; with 1 and a message on standard
\* error when parsing or syncing fails, the missing notebook included, which
\* leaves the script and its backup untouched; with 2 when the path given
\* for the script names no file.
CliExitCodes ==
    /\ [](/\ exit_code = 0 <=> message \in StdoutMessages
          /\ exit_code = 1 <=> message \in StderrMessages
          /\ exit_code = 2 <=> message = "Path does not exist"
          /\ pc[1] = "complete" => exit_code = 0
          /\ pc[1] = "failed" => exit_code = 1)
    /\ [][(cmds' = cmds + 1 /\ message' = "Notebook not found") =>
            (script' = script /\ backup' = backup /\ notebook' = notebook)]_vars

\* a dev that succeeded, then a command given a path that names no file
CliExitCodesWitness ==
    /\ exit_code = 2
    /\ cmds = 2
    /\ Generated

\* both invocations have finished
BothDone == \A p \in Procs : pc[p] \in {"complete", "failed"}

\* C17: when two syncs run concurrently on one script, whatever the
\* interleaving of their reads, backups and overwrites: each overwrite leaves
\* in the script the reconstruction of the invocation that made it, nothing
\* but an overwrite changes the script, and so the script at the end is the
\* reconstruction of the invocation whose overwrite ran last.
LastWriterWins ==
    /\ [][\A p \in Procs :
             (pc[p] = "write_data" /\ pc'[p] # pc[p]) =>
                 script' = local[p].new_source]_vars
    /\ [][script' # script =>
             \E p \in Procs : /\ pc[p] \in {"write_open", "write_data"}
                              /\ pc'[p] # pc[p]]_vars
    /\ []((BothDone /\ \E p \in Procs : pc[p] = "complete") =>
             \E p \in Procs : pc[p] = "complete" /\ script = local[p].new_source)

\* df occurs in the code inside a lambda, whose scope the renamer does not see
UsesDfInNestedScope(code) ==
    \E i \in DOMAIN code :
        \E j, k \in DOMAIN code[i].toks :
            j < k /\ code[i].toks[j] = W("lambda") /\ code[i].toks[k] = W("df")

\* C18: when df occurs in a step inside a nested scope (a lambda), generate
\* still substitutes the stage name for it and emits a RenameAmbiguity
\* warning that names the step.
RenameAmbiguityReported ==
    JustGenerated =>
        \A k \in DOMAIN GenSteps :
            UsesDfInNestedScope(GenSteps[k].code) =>
                /\ ~UsesName(StepCellsOf(notebook)[k].body, "df")
                /\ GenSteps[k].name \in RenameWarnings(ParseTransformer(gen_from))

\* C19: while a BuildSession is active, every call of a tracked operation
\* appends one record to the history of that session, in call order: the
\* history of a session is the sequence of the operations called while it
\* was the active one.
OperationsTracked ==
    \A s \in Sessions : tracker[s] # None => History(s) = calls[s]

\* C20: the active session is the tracker of the session entered last when
\* no exit has happened since, and None after any exit, also while an outer
\* session is still open.
SessionLifecycle ==
    /\ current # None => (active_session # None /\ active_session = tracker[current])
    /\ current = None => active_session = None

\* an inner session has exited and the outer one is still open
SessionLifecycleWitness ==
    /\ open # {}
    /\ current = None
    /\ \E s \in Sessions : s \notin open /\ tracker[s] # None

\* C21: sync reverses both sides of the renaming: in the step code sync has
\* taken from the Step cells of a generated notebook, the cell's output name
\* and its input stage name are both back to df, so that no stage name df_k
\* is left in the step code of the synced script.
SyncReversesBothSides ==
    SyncedUnedited =>
        /\ \A i \in DOMAIN local[1].steps :
              \A k \in DOMAIN StageNames :
                  ~UsesName(local[1].steps[i].code, StageNames[k])
        /\ pc[1] = "complete" =>
              \A i \in DOMAIN ParseTransformer(script).steps :
                  \A k \in DOMAIN StageNames :
                      ~UsesName(ParseTransformer(script).steps[i].code, StageNames[k])

\* C22: the input name of the first step is a name the SourceLoad cell
\* binds, and the reads of df in the first step's code are rewritten to it;
\* the reads of df in a later step (those up to the end of its first
\* assignment, when it has several) are rewritten to the output name of the
\* Step cell before it.
FirstStepInput ==
    JustGenerated =>
        LET sc == StepCellsOf(notebook)
            all == NotebookCells(notebook)
            loaded == UNION {Range(DeclaredOutputs(all[c])) :
                               c \in {x \in DOMAIN all : CellKind(all[x]) = "SourceLoad"}}
        IN  \A i \in DOMAIN GenSteps :
                LET code == GenSteps[i].code
                    A == AssignStmts(code)
                    e == IF Cardinality(A) >= 2 THEN StmtLastLine(code, Least(A))
                         ELSE Len(code)
                IN  \A j \in 1..e : \A t \in DOMAIN code[j].toks :
                        IsRef(code, j, t) =>
                            IF i = 1 THEN sc[i].body[j + 1].toks[t].s \in loaded
                            ELSE sc[i].body[j + 1].toks[t].s
                                   = DeclaredOutputs(sc[i - 1])[1]

(***************************************************************************)
(* C23  Declared inputs are complete: in a generated notebook every name a  *)
(* Step cell declares as input is exported by an earlier cell, and every    *)
(* name the body of a Step cell refers to is a declared input, an operation *)
(* name or a name bound inside the cell itself.                             *)
(***************************************************************************)
DeclaredInputsComplete ==
    JustGenerated =>
        LET all == NotebookCells(notebook)
            NotNames == {"if", "print", "return", "lambda", "0"}
            Exports(cell) ==
                Range(DeclaredOutputs(cell))
                \cup UNION {{cell.body[j].toks[t].s : t \in DOMAIN cell.body[j].toks} :
                              j \in {x \in DOMAIN cell.body :
                                       /\ cell.body[x].ind = 1
                                       /\ \E r \in 1..(x - 1) :
                                            /\ cell.body[r].toks = Ws(<<"return", "(">>)
                                            /\ \A y \in (r + 1)..x : cell.body[y].ind = 1}}
            IsName(line, t) ==
                /\ IsWord(line.toks[t]) /\ line.toks[t].s \notin NotNames
                /\ ~(t > 1 /\ line.toks[t - 1] = W("."))
            Refs(cell) ==
                UNION {{cell.body[j].toks[t].s :
                          t \in {x \in DOMAIN cell.body[j].toks : IsName(cell.body[j], x)}} :
                       j \in {x \in DOMAIN cell.body : ~IsComment(cell.body[x])}}
            BoundInside(cell) ==
                {cell.body[j].toks[1].s : j \in {x \in DOMAIN cell.body :
                                                   IsSetupAssign(cell.body[x])}}
                \cup UNION {{cell.body[j].toks[t].s :
                               t \in {x \in DOMAIN cell.body[j].toks :
                                        x > 1 /\ cell.body[j].toks[x - 1] = W("lambda")}} :
                            j \in DOMAIN cell.body}
        IN  \A c \in DOMAIN all :
                CellKind(all[c]) = "Step" =>
                    /\ \A n \in DeclaredInputs(all[c]) :
                           \E b \in 1..(c - 1) : n \in Exports(all[b])
                    /\ Refs(all[c]) \subseteq
                           DeclaredInputs(all[c]) \cup ExportedOps \cup BoundInside(all[c])

(***************************************************************************)
(* C24  Imports cell exports every referenced operation: in a generated     *)
(* notebook every operation of the registry that the code of a step refers  *)
(* to is among the names the Imports cell returns and among the declared    *)
(* inputs of the Step cell of that step.                                    *)
(***************************************************************************)
ImportsExportReferencedOps ==
    JustGenerated =>
        LET all == NotebookCells(notebook)
            sc == StepCellsOf(notebook)
            imp == all[CHOOSE x \in DOMAIN all : CellKind(all[x]) = "Imports"]
            returned == UNION {{imp.body[j].toks[t].s : t \in DOMAIN imp.body[j].toks} :
                                 j \in {x \in 1..Len(imp.body) :
                                          \E r \in 1..(x - 1) :
                                              imp.body[r].toks = Ws(<<"return", "(">>)}}
        IN  \A i \in DOMAIN GenSteps : \A op \in RegistryOps :
                UsesName(GenSteps[i].code, op) =>
                    /\ op \in returned
                    /\ op \in DeclaredInputs(sc[i])

(***************************************************************************)
(* C25  Parser partitions the entry point body: the statements of the body  *)
(* before the first top-level step marker are the setup code, every         *)
(* top-level step marker opens a step, and the code of a step is the lines  *)
(* of the statements between its marker and the next one, in order; apart   *)
(* from the inner docstring, the markers and the return no line of a        *)
(* statement is dropped or duplicated.                                      *)
(***************************************************************************)
ParserPartitionsBody ==
    JustGenerated =>
        LET src == gen_from
            d == FindTransformFunction(src)
            stop == FunctionEnd(src, d + 1, d)
            ast == ParseTransformer(src)
            IsMarker(k) == src[k].ind = 1 /\ src[k].toks[1] = W("step")
            M == {k \in (d + 1)..stop : ~IsBlank(src[k]) /\ IsMarker(k)}
            Marker(i) == CHOOSE k \in M : Cardinality({m \in M : m < k}) = i - 1
            Until(i) == IF i < Cardinality(M) THEN Marker(i + 1) - 1 ELSE stop
            Statements(code) == SelectSeq(code, LAMBDA l : ~IsBlank(l) /\ ~IsComment(l))
            Dropped(l, setup) ==
                l.ind = 1 /\ \/ l.toks[1] = W("step")
                             \/ IsReturnStmt(l)
                             \/ setup /\ Len(l.toks) = 1 /\ l.toks[1].q
            Between(a, b, setup) ==
                LET kept == SelectSeq(Statements(SubSeq(src, a, b)),
                                      LAMBDA l : ~Dropped(l, setup))
                IN  [j \in DOMAIN kept |-> Ln(kept[j].ind - 1, kept[j].toks)]
        IN  /\ Len(ast.steps) = Cardinality(M)
            /\ Statements(ast.setup_code)
                 = Between(d + 1, IF M = {} THEN stop ELSE Marker(1) - 1, TRUE)
            /\ \A i \in DOMAIN ast.steps :
                 /\ ast.steps[i].name = src[Marker(i)].toks[3].s
                 /\ Statements(ast.steps[i].code) = Between(Marker(i) + 1, Until(i), FALSE)

(***************************************************************************)
(* C26  Sync strips only generated scaffolding: the code sync extracts from *)
(* a Step cell of the unedited notebook is the body of the cell without its *)
(* header line, its display line and its trailing return, every other line  *)
(* in order and unchanged apart from the renaming of the stage names.       *)
(***************************************************************************)
SyncStripsOnlyScaffolding ==
    SyncedUnedited =>
        LET sc == StepCellsOf(local[1].notebook_source)
            Unnamed(lines) ==
                [j \in DOMAIN lines |->
                    Ln(lines[j].ind,
                       [t \in DOMAIN lines[j].toks |->
                           IF IsStageName(lines[j].toks[t])
                           THEN W("df") ELSE lines[j].toks[t]])]
            Content(lines) == SelectSeq(Unnamed(lines), LAMBDA l : ~IsBlank(l))
        IN  /\ Len(local[1].steps) = Len(sc)
            /\ \A i \in DOMAIN sc :
                   Content(local[1].steps[i].code)
                     = Content(SubSeq(sc[i].body, 2, Len(sc[i].body) - 2))

(***************************************************************************)
(* C27  Declared output is always bound: in every Step cell of a generated  *)
(* notebook, also the cell of a step that never assigns the working         *)
(* variable, a statement of the cell body assigns the declared output name  *)
(* before the line that displays it.                                        *)
(***************************************************************************)
DeclaredOutputBound ==
    JustGenerated =>
        LET sc == StepCellsOf(notebook)
        IN  \A i \in DOMAIN sc :
                /\ Len(DeclaredOutputs(sc[i])) = 1
                /\ \E j \in 1..(Len(sc[i].body) - 2) :
                       /\ sc[i].body[j].ind = 0
                       /\ Len(sc[i].body[j].toks) >= 2
                       /\ sc[i].body[j].toks[1] = W(DeclaredOutputs(sc[i])[1])
                       /\ sc[i].body[j].toks[2] = W("=")

(***************************************************************************)
(* C28  Sync changes only the transform function: in the script sync has    *)
(* written, the text before the line of def transform and the text after    *)
(* the last line of the function are those of the script it read.           *)
(***************************************************************************)
SyncKeepsTextOutsideTransform ==
    \A p \in Procs :
        pc[p] = "complete" =>
            LET old == pre_script[p]
                d == FindTransformFunction(old)
                new_d == FindTransformFunction(script)
                After(src, k) ==
                    SelectSeq(SubSeq(src, FunctionEnd(src, k + 1, k) + 1, Len(src)),
                              LAMBDA l : ~IsBlank(l))
            IN  /\ new_d = d
                /\ SubSeq(script, 1, d - 1) = SubSeq(old, 1, d - 1)
                /\ After(script, d) = After(old, d)

(***************************************************************************)
(* C29  Backup tracks only the latest sync: every sync that succeeds        *)
(* replaces the content of the backup file by the content the script has    *)
(* at that moment, so after the k-th of a sequence of successful syncs the  *)
(* backup is the script as it was just before the k-th sync, whatever the   *)
(* backup held before.                                                      *)
(***************************************************************************)
BackupTracksLatestSync ==
    /\ [][\A p \in Procs :
            (pc[p] = "backup_copy" /\ pc'[p] = PcAfter("backup_copy"))
                => backup' = script]_vars
    /\ [](\A p \in Procs :
            (pc[p] = "complete" /\ pre_backup[p] # NoFile)
                => (backup = pre_script[p]
                    /\ (pre_script[p] # pre_backup[p] => backup # pre_backup[p])))

\* the second sync has succeeded: the backup held the script as `dev` read it,
\* and holds now the script the first sync wrote; the first content is gone
BackupTracksLatestSyncWitness ==
    /\ pc[1] = "complete"
    /\ pre_backup[1] = gen_from
    /\ pre_script[1] # gen_from
    /\ backup = pre_script[1]
    /\ backup # gen_from /\ script # gen_from

(***************************************************************************)
(* C30  Generated names are fresh: the output name of the Step cell of a    *)
(* step occurs nowhere in the setup code and in no step's code of the       *)
(* script the notebook is generated from.                                   *)
(***************************************************************************)
GeneratedNamesFresh ==
    JustGenerated =>
        LET ast == ParseTransformer(gen_from)
            sc == StepCellsOf(notebook)
        IN  \A i \in DOMAIN sc : \A n \in Range(DeclaredOutputs(sc[i])) :
                /\ ~UsesName(ast.setup_code, n)
                /\ \A k \in DOMAIN ast.steps : ~UsesName(ast.steps[k].code, n)

====
